---- MODULE Spec2Model ----
(***************************************************************************)
(* Cross-Sight (crosssight.py): a transparent crosshair overlay            *)
(* (CrosshairOverlay) and its control panel (CrosshairApp).                *)
(*                                                                         *)
(* Every Qt handler runs to completion on the single GUI thread, so each   *)
(* handler is one action.  Signals are delivered synchronously: a          *)
(* setValue / setChecked that changes a widget runs the connected slot     *)
(* before it returns, and the model does the same.                         *)
(***************************************************************************)
EXTENDS Integers, Sequences, FiniteSets, TLC

VARIABLES
    \* ---- CrosshairOverlay -------------------------------------------------
    settings,           \* overlay.settings: dict, key -> value (keys may be missing after a load)
    cursor_visible,     \* overlay.cursor_visible
    overlayOpen,        \* the overlay widget has not been closed
    painted,            \* draw calls issued by the last paintEvent
    \* ---- CrosshairApp -----------------------------------------------------
    slider,             \* value() of the six QSliders
    label,              \* text() of the six readout QLabels
    outline_check,      \* outline_check.isChecked()
    dot_check,          \* dot_check.isChecked()
    close_to_tray_check,\* close_to_tray_check.isChecked()
    loading_profile,    \* the re-entrancy flag
    panelVisible,       \* the main window is shown
    trayVisible,        \* the tray icon is shown
    appState,           \* "running", "quit" (QApplication.quit) or "aborted" (unhandled exception)
    \* ---- environment ------------------------------------------------------
    displayCount,       \* the cursor display counter that user32.ShowCursor maintains
    cursorInside,       \* QCursor.pos() lies in the main window's geometry()
    panelActive,        \* QApplication.activeWindow() is the main window
    file,               \* the profile file written by save_profile
    \* ---- observation ------------------------------------------------------
    last,               \* the handler that ran last
    raised,             \* the exception that handler left unhandled, or "none"
    snapshot,           \* settings as they were when the last load_profile began
    saved,              \* settings as they were when `file` was written
    loadSrc,            \* what the last load_profile was given
    loadWrites,         \* Settings keys written by control callbacks during the last load_profile
    calls,              \* ShowCursor calls issued by the last handler
    prevInside,         \* where the pointer was at the last two manage_cursor ticks: <<before, latest>>
    nops                \* number of control-panel operations so far

vars == <<settings, cursor_visible, overlayOpen, painted, slider, label, outline_check,
          dot_check, close_to_tray_check, loading_profile, panelVisible, trayVisible,
          appState, displayCount, cursorInside, panelActive, file, last, raised,
          snapshot, saved, loadSrc, loadWrites, calls, prevInside, nops>>

\* Bound on the number of control-panel operations in a behaviour.
MaxOps == 3

\* Bounds of the primary screen's geometry (QApplication.primaryScreen()).
ScreenWidth == 1920
ScreenHeight == 1080

-----------------------------------------------------------------------------
(* Text: Python str(int), QColor.name(), QColor(str), json.dump/json.load  *)

Digits == <<"0", "1", "2", "3", "4", "5", "6", "7", "8", "9">>
HexDigits == <<"0", "1", "2", "3", "4", "5", "6", "7", "8", "9", "a", "b", "c", "d", "e", "f">>

RECURSIVE str(_)
\* str(n) for a non-negative int: its decimal digits.
str(n) == IF n < 10 THEN <<Digits[n + 1]>> ELSE Append(str(n \div 10), Digits[(n % 10) + 1])

DigitVal(ch) == (CHOOSE i \in 1..10 : Digits[i] = ch) - 1

RECURSIVE ParseInt(_)
\* the int a digit string denotes
ParseInt(s) == IF Len(s) = 0 THEN 0
               ELSE 10 * ParseInt(SubSeq(s, 1, Len(s) - 1)) + DigitVal(s[Len(s)])

IsHex(ch) == \E i \in 1..16 : HexDigits[i] = ch
HexVal(ch) == (CHOOSE i \in 1..16 : HexDigits[i] = ch) - 1
Hex2(n) == <<HexDigits[(n \div 16) + 1], HexDigits[(n % 16) + 1]>>

\* A QColor: an RGB triple, or the invalid colour (whose components read 0).
RGB(r, g, b) == [valid |-> TRUE, r |-> r, g |-> g, b |-> b]
InvalidColor == [valid |-> FALSE, r |-> 0, g |-> 0, b |-> 0]

\* QColor.name(): "#rrggbb"
name(c) == <<"#">> \o Hex2(c.r) \o Hex2(c.g) \o Hex2(c.b)

\* QColor(str): "#rrggbb" gives the colour, any other modelled string the invalid colour.
QColor(s) ==
    IF Len(s) = 7 /\ s[1] = "#" /\ \A i \in 2..7 : IsHex(s[i])
    THEN RGB(16 * HexVal(s[2]) + HexVal(s[3]),
             16 * HexVal(s[4]) + HexVal(s[5]),
             16 * HexVal(s[6]) + HexVal(s[7]))
    ELSE InvalidColor

(* A Python float is kept as the decimal it was rounded from: Float(h) is   *)
(* the IEEE-754 double nearest h/100, which is what `value() / 100` and     *)
(* float("0.29") both produce.                                              *)
Float(h) == [hundredths |-> h]

RECURSIVE Pow2Mod(_, _)
\* 2^k mod m
Pow2Mod(k, m) ==
    IF k = 0 THEN 1 % m
    ELSE LET r == Pow2Mod(k \div 2, m)
         IN  IF k % 2 = 0 THEN (r * r) % m ELSE (2 * r * r) % m

RECURSIVE Pow2(_)
Pow2(k) == IF k = 0 THEN 1 ELSE 2 * Pow2(k - 1)

RECURSIVE BitLen(_)
\* number of binary digits of n >= 1
BitLen(n) == IF n < 2 THEN 1 ELSE 1 + BitLen(n \div 2)

RECURSIVE Shift(_, _)
\* least t with h * 2^t >= 100
Shift(h, t) == IF h * Pow2(t) >= 100 THEN t ELSE Shift(h, t + 1)

(* int(x * 100) for x = Float(h), h >= 1, in IEEE-754 double arithmetic.    *)
(* With k = 52 + Shift(h), the significand of x is q = round(h*2^k / 100),  *)
(* so the exact product 100*q is h*2^k + d with d the rounding error of the *)
(* division times 100 (|d| <= 50, found from h*2^k mod 200).  The product   *)
(* is then rounded to 53 bits, that is to a multiple of 2^s; it comes out   *)
(* below h, and int() truncates it to h - 1, exactly when d < 0 and its     *)
(* size exceeds half of that unit.                                          *)
IntTimes100(x) ==
    LET h    == x.hundredths
        k    == 52 + Shift(h, 0)
        n200 == (h * Pow2Mod(k, 200)) % 200       \* h*2^k mod 200
        rem  == n200 % 100                        \* h*2^k mod 100
        q0odd == n200 >= 100                      \* parity of floor(h*2^k / 100)
        up   == rem > 50 \/ (rem = 50 /\ q0odd)   \* round half to even
        d    == IF up THEN 100 - rem ELSE 0 - rem
        pow2 == Pow2(BitLen(h) - 1) = h           \* h*2^k is a power of two
        s    == IF pow2 /\ d < 0 THEN BitLen(h) + Shift(h, 0) - 2
                ELSE BitLen(h) + Shift(h, 0) - 1
        half == Pow2(s) \div 2
    IN  IF d < 0 /\ (0 - d) > half THEN h - 1 ELSE h

\* repr(float) as json.dump writes it: the shortest decimal that reads back.
FloatRepr(x) ==
    LET h == x.hundredths
        f == h % 100
    IN  str(h \div 100) \o <<".">> \o
        (IF f % 10 = 0 THEN <<Digits[(f \div 10) + 1]>>
         ELSE <<Digits[(f \div 10) + 1], Digits[(f % 10) + 1]>>)

ColorKeys == {"color", "outline_color"}
BoolKeys == {"outline", "center_dot"}

\* json.dump of one value: a number, true/false, or a quoted string
JsonDump(k, v) ==
    IF k \in ColorKeys THEN <<"\"">> \o v \o <<"\"">>
    ELSE IF k \in BoolKeys THEN (IF v THEN <<"t", "r", "u", "e">> ELSE <<"f", "a", "l", "s", "e">>)
    ELSE IF k = "opacity" THEN FloatRepr(v)
    ELSE str(v)

\* json.load of one value; the type comes from the token, not from the key
JsonParse(tok) ==
    IF tok = <<"t", "r", "u", "e">> THEN TRUE
    ELSE IF tok = <<"f", "a", "l", "s", "e">> THEN FALSE
    ELSE IF tok[1] = "\"" THEN SubSeq(tok, 2, Len(tok) - 1)
    ELSE IF \E i \in 1..Len(tok) : tok[i] = "."
    THEN LET dot  == CHOOSE i \in 1..Len(tok) : tok[i] = "."
             frac == SubSeq(tok, dot + 1, Len(tok))
         IN  Float(100 * ParseInt(SubSeq(tok, 1, dot - 1))
                   + (IF Len(frac) = 1 THEN 10 * ParseInt(frac) ELSE ParseInt(frac)))
    ELSE ParseInt(tok)

-----------------------------------------------------------------------------
(* CrosshairOverlay.__init__ and CrosshairApp.init_ui                       *)

Keys == {"size", "thickness", "gap", "color", "outline", "outline_thickness",
         "outline_color", "center_dot", "dot_size", "opacity"}

\* the sliders, in the order update_ui_from_settings refreshes them
SliderKeys == <<"size", "thickness", "gap", "outline_thickness", "dot_size", "opacity">>
SliderKeySet == {SliderKeys[i] : i \in 1..Len(SliderKeys)}

DefaultSettings ==
    [size |-> 20, thickness |-> 2, gap |-> 5, color |-> RGB(255, 0, 0), outline |-> TRUE,
     outline_thickness |-> 1, outline_color |-> RGB(0, 0, 0), center_dot |-> TRUE,
     dot_size |-> 3, opacity |-> Float(100)]

\* setMinimum / setMaximum of each slider
SliderMin == [size |-> 5, thickness |-> 1, gap |-> 0, outline_thickness |-> 1,
              dot_size |-> 1, opacity |-> 10]
SliderMax == [size |-> 100, thickness |-> 10, gap |-> 20, outline_thickness |-> 5,
              dot_size |-> 10, opacity |-> 100]

\* Qt.CheckState as stateChanged(int) carries it
Checked == 2
Unchecked == 0

\* the value a slider is created with and refreshed to from a Settings value
SliderValueOf(k, v) == IF k = "opacity" THEN IntTimes100(v) ELSE v

\* all Settings fields within their declared ranges
InRange(s) ==
    /\ DOMAIN s = Keys
    /\ \A k \in SliderKeySet \ {"opacity"} : s[k] >= SliderMin[k] /\ s[k] <= SliderMax[k]
    /\ s.opacity.hundredths >= SliderMin.opacity /\ s.opacity.hundredths <= SliderMax.opacity
    /\ s.color.valid /\ s.outline_color.valid

NoRecord == [none |-> TRUE]
NoFile == [kind |-> "none"]

-----------------------------------------------------------------------------
(* Control-panel handlers, as functions of the panel's state m.            *)
(* m.raised is the exception in flight; a statement after a raise is not    *)
(* executed.  m.writes logs the Settings keys the callbacks assign.         *)

App == [settings |-> settings, slider |-> slider, label |-> label,
        outline_check |-> outline_check, dot_check |-> dot_check,
        loading_profile |-> loading_profile, file |-> file, saved |-> saved,
        writes |-> {}, raised |-> "none"]

Raise(m, exc) == [m EXCEPT !.raised = exc]

update_crosshair_unguarded(m) ==
    [m EXCEPT !.settings = [k \in DOMAIN m.settings \cup SliderKeySet |->
                               IF k = "opacity" THEN Float(m.slider[k])
                               ELSE IF k \in SliderKeySet THEN m.slider[k]
                               ELSE m.settings[k]],
              !.writes = @ \cup SliderKeySet]

update_crosshair(m) ==
    IF ~m.loading_profile
    THEN [m EXCEPT !.settings = [k \in DOMAIN m.settings \cup SliderKeySet |->
                                    IF k = "opacity" THEN Float(m.slider[k])
                                    ELSE IF k \in SliderKeySet THEN m.slider[k]
                                    ELSE m.settings[k]],
                   !.writes = @ \cup SliderKeySet]
    ELSE m

update_outline(m, state) ==
    [m EXCEPT !.settings = [k \in DOMAIN m.settings \cup {"outline"} |->
                               IF k = "outline" THEN state = Checked ELSE m.settings[k]],
              !.writes = @ \cup {"outline"}]

update_dot(m, state) ==
    [m EXCEPT !.settings = [k \in DOMAIN m.settings \cup {"center_dot"} |->
                               IF k = "center_dot" THEN state = Checked ELSE m.settings[k]],
              !.writes = @ \cup {"center_dot"}]

\* QColorDialog.getColor returns the chosen colour, or an invalid one on cancel
choose_color(m, c) ==
    IF "color" \notin DOMAIN m.settings THEN Raise(m, "KeyError")
    ELSE IF c.valid THEN [m EXCEPT !.settings.color = c]
    ELSE m

choose_outline_color(m, c) ==
    IF "outline_color" \notin DOMAIN m.settings THEN Raise(m, "KeyError")
    ELSE IF c.valid THEN [m EXCEPT !.settings.outline_color = c]
    ELSE m

\* QSlider.setValue: clamps to the range; valueChanged fires only on a change
setValue(m, k, v) ==
    LET c == IF v < SliderMin[k] THEN SliderMin[k] ELSE IF v > SliderMax[k] THEN SliderMax[k] ELSE v
    IN  IF c = m.slider[k] THEN m ELSE update_crosshair([m EXCEPT !.slider[k] = c])

\* QCheckBox.setChecked: stateChanged fires only on a change
setChecked_outline(m, b) ==
    IF b = m.outline_check THEN m
    ELSE update_outline([m EXCEPT !.outline_check = b], IF b THEN Checked ELSE Unchecked)

setChecked_dot(m, b) ==
    IF b = m.dot_check THEN m
    ELSE update_dot([m EXCEPT !.dot_check = b], IF b THEN Checked ELSE Unchecked)

\* one `slider.setValue(self.overlay.settings[k])` line of update_ui_from_settings
RefreshSlider(m, k) ==
    IF m.raised # "none" THEN m
    ELSE IF k \notin DOMAIN m.settings THEN Raise(m, "KeyError")
    ELSE setValue(m, k, SliderValueOf(k, m.settings[k]))

\* one `value_label.setText(str(self.overlay.settings[k]))` line
RefreshLabel(m, k) ==
    IF m.raised # "none" THEN m
    ELSE IF k \notin DOMAIN m.settings THEN Raise(m, "KeyError")
    ELSE [m EXCEPT !.label[k] = str(SliderValueOf(k, m.settings[k]))]

\* the colour buttons' style sheets read both colours
RefreshColors(m) ==
    IF m.raised # "none" THEN m
    ELSE IF ~(ColorKeys \subseteq DOMAIN m.settings) THEN Raise(m, "KeyError")
    ELSE m

RefreshOutlineCheck(m) ==
    IF m.raised # "none" THEN m
    ELSE IF "outline" \notin DOMAIN m.settings THEN Raise(m, "KeyError")
    ELSE setChecked_outline(m, m.settings.outline)

RefreshDotCheck(m) ==
    IF m.raised # "none" THEN m
    ELSE IF "center_dot" \notin DOMAIN m.settings THEN Raise(m, "KeyError")
    ELSE setChecked_dot(m, m.settings.center_dot)

RECURSIVE RefreshSliders(_, _)
RefreshSliders(m, i) ==
    IF i > Len(SliderKeys) THEN m
    ELSE CHOOSE r \in {RefreshSliders(v, i + 1) : v \in {RefreshSlider(m, SliderKeys[i])}} : TRUE

RECURSIVE RefreshLabels(_, _)
RefreshLabels(m, i) ==
    IF i > Len(SliderKeys) THEN m
    ELSE CHOOSE r \in {RefreshLabels(v, i + 1) : v \in {RefreshLabel(m, SliderKeys[i])}} : TRUE

\* The statements run in order, each on the state the one before it left
\* ({F(v) : v \in {e}} has e evaluated before F is applied).
update_ui_from_settings(m) ==
    CHOOSE r \in
        {RefreshDotCheck(e) : e \in
        {RefreshOutlineCheck(d) : d \in
        {RefreshColors(c) : c \in
        {RefreshLabels(b, 1) : b \in
        {RefreshSliders(m, 1)}}}}} : TRUE

\* choice: what QFileDialog.getSaveFileName and open(filename, 'w') give
save_profile(m, choice) ==
    IF choice = "cancel" THEN m
    ELSE IF ~(ColorKeys \subseteq DOMAIN m.settings) THEN Raise(m, "KeyError")
    ELSE IF choice = "unwritable" THEN Raise(m, "OSError")
    ELSE LET settings_to_save ==
                 [k \in DOMAIN m.settings |->
                     IF k \in ColorKeys THEN name(m.settings[k]) ELSE m.settings[k]]
         IN  [m EXCEPT !.file = [kind |-> "json",
                                 doc |-> [k \in DOMAIN settings_to_save |->
                                             JsonDump(k, settings_to_save[k])]],
                       !.saved = m.settings]

\* f: the file QFileDialog.getOpenFileName names, or a cancelled dialog
load_profile(m, f) ==
    IF f.kind = "cancel" THEN m
    ELSE IF f.kind = "none" THEN Raise(m, "OSError")
    ELSE IF f.kind = "garbage" THEN Raise(m, "JSONDecodeError")
    ELSE LET parsed == [k \in DOMAIN f.doc |-> JsonParse(f.doc[k])]
         IN  IF "color" \notin DOMAIN parsed THEN Raise(m, "KeyError")
             ELSE IF "outline_color" \notin DOMAIN parsed THEN Raise(m, "KeyError")
             ELSE LET loaded_settings ==
                          [k \in DOMAIN parsed |->
                              IF k \in ColorKeys THEN QColor(parsed[k]) ELSE parsed[k]]
                      m1 == [m EXCEPT !.settings = loaded_settings,
                                      !.loading_profile = TRUE]
                      m2 == update_ui_from_settings(m1)
                  IN  IF m2.raised # "none" THEN m2
                      ELSE [m2 EXCEPT !.loading_profile = FALSE]

-----------------------------------------------------------------------------
(* Inputs: what the user and the file system can hand to the handlers.      *)

\* positions the user drags each slider to
SliderChoices == [size |-> {5, 20, 100}, thickness |-> {2, 10}, gap |-> {0, 5},
                  outline_thickness |-> {1, 5}, dot_size |-> {3, 10},
                  opacity |-> {29, 50, 100}]

\* what QColorDialog.getColor returns: a picked colour, or the invalid colour on cancel
PickerColors == {RGB(0, 255, 0), RGB(18, 52, 171), InvalidColor}

\* a well-formed profile written by hand
ForeignSettings ==
    [size |-> 100, thickness |-> 10, gap |-> 0, color |-> RGB(0, 255, 0), outline |-> FALSE,
     outline_thickness |-> 5, outline_color |-> RGB(255, 255, 255), center_dot |-> FALSE,
     dot_size |-> 10, opacity |-> Float(50)]
ForeignDoc ==
    [k \in Keys |-> JsonDump(k, IF k \in ColorKeys THEN name(ForeignSettings[k])
                                ELSE ForeignSettings[k])]

\* profiles that did not come from save_profile: not JSON at all, well formed,
\* lacking one key, a colour that is no colour, a size beyond the slider's range
ForeignFiles ==
    {[kind |-> "garbage"], [kind |-> "json", doc |-> ForeignDoc]}
    \cup {[kind |-> "json", doc |-> [k \in Keys \ {missing} |-> ForeignDoc[k]]] : missing \in Keys}
    \cup {[kind |-> "json", doc |-> [ForeignDoc EXCEPT !.color = JsonDump("color", <<"r", "e", "d", "?">>)]],
          [kind |-> "json", doc |-> [ForeignDoc EXCEPT !.size = str(200)]]}

-----------------------------------------------------------------------------
(* State after CrosshairApp() and main_window.show()                        *)

Init ==
    /\ settings = DefaultSettings
    /\ cursor_visible = TRUE
    /\ overlayOpen = TRUE
    /\ painted = <<>>
    /\ slider = [k \in SliderKeySet |-> SliderValueOf(k, DefaultSettings[k])]
    /\ label = [k \in SliderKeySet |-> str(SliderValueOf(k, DefaultSettings[k]))]
    /\ outline_check = DefaultSettings.outline
    /\ dot_check = DefaultSettings.center_dot
    /\ close_to_tray_check = TRUE
    /\ loading_profile = FALSE
    /\ panelVisible = TRUE
    /\ trayVisible = TRUE
    /\ appState = "running"
    /\ displayCount = 0
    /\ cursorInside = FALSE
    /\ panelActive = TRUE
    /\ file = NoFile
    /\ last = "init"
    /\ raised = "none"
    /\ snapshot = DefaultSettings
    /\ saved = NoRecord
    /\ loadSrc = "none"
    /\ loadWrites = {}
    /\ calls = <<>>
    /\ prevInside = <<"none", "none">>
    /\ nops = 0

overlayVars == <<cursor_visible, overlayOpen, displayCount, calls, prevInside>>
windowVars == <<close_to_tray_check, panelVisible, trayVisible, cursorInside, panelActive>>
panelVars == <<settings, slider, label, outline_check, dot_check, loading_profile, file, saved>>
loadVars == <<snapshot, loadSrc, loadWrites>>

(* An exception that leaves a slot unhandled is printed and the event loop  *)
(* goes on, or PyQt5 (5.5 and later, no excepthook installed) aborts the    *)
(* process: both outcomes are kept.                                         *)
Unhandled(exc) ==
    appState' \in (IF exc = "none" THEN {"running"} ELSE {"running", "aborted"})

\* the panel is up and the user operates one of its controls
PanelReady == appState = "running" /\ panelVisible /\ nops < MaxOps

\* the effect of a control-panel slot that ran from state App to state m
PanelStep(m, op) ==
    /\ settings' = m.settings
    /\ slider' = m.slider
    /\ label' = m.label
    /\ outline_check' = m.outline_check
    /\ dot_check' = m.dot_check
    /\ loading_profile' = m.loading_profile
    /\ file' = m.file
    /\ saved' = m.saved
    /\ raised' = m.raised
    /\ last' = op
    /\ nops' = nops + 1
    /\ Unhandled(m.raised)
    /\ UNCHANGED <<overlayVars, windowVars, painted>>

\* the user drags a slider: valueChanged -> update_crosshair
SliderValueChanged ==
    /\ PanelReady
    /\ \E k \in SliderKeySet : \E v \in SliderChoices[k] :
          /\ v # slider[k]
          /\ PanelStep(update_crosshair([App EXCEPT !.slider[k] = v]), "update_crosshair")
    /\ UNCHANGED loadVars

\* the user clicks the Outline checkbox: stateChanged -> update_outline
OutlineStateChanged ==
    /\ PanelReady
    /\ PanelStep(setChecked_outline(App, ~outline_check), "update_outline")
    /\ UNCHANGED loadVars

\* the user clicks the Center Dot checkbox: stateChanged -> update_dot
DotStateChanged ==
    /\ PanelReady
    /\ PanelStep(setChecked_dot(App, ~dot_check), "update_dot")
    /\ UNCHANGED loadVars

ColorBtnClicked ==
    /\ PanelReady
    /\ \E c \in PickerColors : PanelStep(choose_color(App, c), "choose_color")
    /\ UNCHANGED loadVars

OutlineColorBtnClicked ==
    /\ PanelReady
    /\ \E c \in PickerColors : PanelStep(choose_outline_color(App, c), "choose_outline_color")
    /\ UNCHANGED loadVars

SaveBtnClicked ==
    /\ PanelReady
    /\ \E choice \in {"cancel", "ok", "unwritable"} :
          PanelStep(save_profile(App, choice), "save_profile")
    /\ UNCHANGED loadVars

LoadBtnClicked ==
    /\ PanelReady
    /\ \E src \in {"cancel", "saved", "foreign"} :
       \E f \in (IF src = "cancel" THEN {[kind |-> "cancel"]}
                 ELSE IF src = "saved" THEN {file} ELSE ForeignFiles) :
          LET m == load_profile(App, f)
          IN  /\ PanelStep(m, "load_profile")
              /\ snapshot' = settings
              /\ loadSrc' = src
              /\ loadWrites' = m.writes

NextPanel ==
    \/ SliderValueChanged
    \/ OutlineStateChanged
    \/ DotStateChanged
    \/ ColorBtnClicked
    \/ OutlineColorBtnClicked
    \/ SaveBtnClicked
    \/ LoadBtnClicked

\* the control panel alone: the overlay window, the tray and the pointer stay put
SpecPanel == Init /\ [][NextPanel]_vars

-----------------------------------------------------------------------------
(* CrosshairOverlay: the cursor poll, shutdown and the tray                 *)

(* user32.ShowCursor(bShow): increments or decrements the display counter; *)
(* the pointer is displayed while the counter is >= 0 (it starts at 0).     *)
ShowCursor(count, bShow) == IF bShow THEN count + 1 ELSE count - 1
PointerVisible == displayCount >= 0

\* the timer runs as long as the event loop does
manage_cursor ==
    /\ appState = "running"
    /\ LET main_window_contains == panelActive /\ cursorInside
           show == main_window_contains /\ ~cursor_visible
           hide == ~main_window_contains /\ cursor_visible
       IN  /\ cursor_visible' = IF show THEN TRUE ELSE IF hide THEN FALSE ELSE cursor_visible
           /\ displayCount' = IF show THEN ShowCursor(displayCount, TRUE)
                              ELSE IF hide THEN ShowCursor(displayCount, FALSE)
                              ELSE displayCount
           /\ calls' = IF show THEN <<TRUE>> ELSE IF hide THEN <<FALSE>> ELSE <<>>
    /\ prevInside' = <<prevInside[2], IF cursorInside THEN "inside" ELSE "outside">>
    /\ last' = "manage_cursor"
    /\ raised' = "none"
    /\ UNCHANGED <<overlayOpen, windowVars, panelVars, loadVars, painted, appState, nops>>

Overlay_closeEvent_noRestore(count) == count

\* CrosshairOverlay.closeEvent: the counter after it
Overlay_closeEvent(count) == ShowCursor(count, TRUE)

\* CrosshairApp.quit_app
quit_app ==
    /\ displayCount' = Overlay_closeEvent(displayCount)
    /\ calls' = <<TRUE>>
    /\ overlayOpen' = FALSE
    /\ trayVisible' = FALSE
    /\ appState' = "quit"

App_closeEvent_alwaysHide ==
    /\ appState = "running" /\ panelVisible
    /\ panelVisible' = FALSE
    /\ panelActive' = FALSE
    /\ calls' = <<>>
    /\ UNCHANGED <<displayCount, overlayOpen, trayVisible, appState>>
    /\ last' = "closeEvent"
    /\ raised' = "none"
    /\ UNCHANGED <<cursor_visible, prevInside, close_to_tray_check, cursorInside,
                   panelVars, loadVars, painted, nops>>

\* the user closes the main window
App_closeEvent ==
    /\ appState = "running" /\ panelVisible
    /\ panelVisible' = FALSE
    /\ panelActive' = FALSE
    /\ IF close_to_tray_check
       THEN /\ calls' = <<>>
            /\ UNCHANGED <<displayCount, overlayOpen, trayVisible, appState>>
       ELSE quit_app
    /\ last' = "closeEvent"
    /\ raised' = "none"
    /\ UNCHANGED <<cursor_visible, prevInside, close_to_tray_check, cursorInside,
                   panelVars, loadVars, painted, nops>>

\* tray menu "Quit"
TrayQuit ==
    /\ appState = "running" /\ trayVisible
    /\ quit_app
    /\ last' = "quit_app"
    /\ raised' = "none"
    /\ UNCHANGED <<cursor_visible, prevInside, close_to_tray_check, panelVisible, cursorInside,
                   panelActive, panelVars, loadVars, painted, nops>>

\* QMainWindow.show(), as the tray wires it
show ==
    /\ panelVisible' = TRUE
    /\ raised' = "none"
    /\ calls' = <<>>
    /\ UNCHANGED <<cursor_visible, overlayOpen, displayCount, prevInside, close_to_tray_check,
                   trayVisible, cursorInside, panelActive, appState, panelVars, loadVars,
                   painted, nops>>

\* tray menu "Show"
TrayShow ==
    /\ appState = "running" /\ trayVisible
    /\ show
    /\ last' = "show"

\* QSystemTrayIcon.activated(reason)
tray_icon_activated ==
    /\ appState = "running" /\ trayVisible
    /\ \E reason \in {"Trigger", "DoubleClick", "MiddleClick", "Context"} :
          /\ IF reason = "DoubleClick" THEN show
             ELSE /\ raised' = "none"
                  /\ calls' = <<>>
                  /\ UNCHANGED <<cursor_visible, overlayOpen, displayCount, prevInside, windowVars,
                                 appState, panelVars, loadVars, painted, nops>>
          /\ last' = reason

\* the user ticks or clears "Close to system tray"
CloseToTrayToggled ==
    /\ appState = "running" /\ panelVisible
    /\ close_to_tray_check' = ~close_to_tray_check
    /\ last' = "close_to_tray_check"
    /\ raised' = "none"
    /\ calls' = <<>>
    /\ UNCHANGED <<cursor_visible, overlayOpen, displayCount, prevInside, panelVisible,
                   trayVisible, cursorInside, panelActive, appState, panelVars, loadVars,
                   painted, nops>>

\* the pointer crosses the boundary of the main window's geometry
MovePointer ==
    /\ appState = "running"
    /\ cursorInside' = ~cursorInside
    /\ last' = "pointer"
    /\ raised' = "none"
    /\ calls' = <<>>
    /\ UNCHANGED <<cursor_visible, overlayOpen, displayCount, prevInside, close_to_tray_check,
                   panelVisible, trayVisible, panelActive, appState, panelVars, loadVars,
                   painted, nops>>

\* the main window gains activation (it must be shown) or loses it to another window
ActivationChanged ==
    /\ appState = "running"
    /\ panelActive \/ panelVisible
    /\ panelActive' = ~panelActive
    /\ last' = "activation"
    /\ raised' = "none"
    /\ calls' = <<>>
    /\ UNCHANGED <<cursor_visible, overlayOpen, displayCount, prevInside, close_to_tray_check,
                   panelVisible, trayVisible, cursorInside, appState, panelVars, loadVars,
                   painted, nops>>

NextOverlay ==
    \/ manage_cursor
    \/ MovePointer
    \/ ActivationChanged
    \/ App_closeEvent
    \/ TrayQuit
    \/ TrayShow
    \/ tray_icon_activated
    \/ CloseToTrayToggled

\* the overlay's cursor poll, the windows and the tray alone: Settings stay put
SpecOverlay == Init /\ [][NextOverlay]_vars

-----------------------------------------------------------------------------
(* CrosshairOverlay.paintEvent                                              *)

\* QPen(color) with setWidth(width); Qt's default cap style is Qt::SquareCap
QPen(color, width) == [color |-> color, width |-> width, cap |-> "SquareCap"]

\* self.rect().center() of a widget covering the primary screen
center == [x |-> (ScreenWidth - 1) \div 2, y |-> (ScreenHeight - 1) \div 2]

drawLine(pen, x1, y1, x2, y2) ==
    [op |-> "drawLine", pen |-> pen, x1 |-> x1, y1 |-> y1, x2 |-> x2, y2 |-> y2]

drawEllipse(pen, brush, c, rx, ry) ==
    [op |-> "drawEllipse", pen |-> pen, brush |-> brush, cx |-> c.x, cy |-> c.y,
     rx |-> rx, ry |-> ry]

\* the four drawLine calls of one pass: left, right, up, down
Arms(pen, size, gap) ==
    << drawLine(pen, center.x - size - gap, center.y, center.x - gap, center.y),
       drawLine(pen, center.x + gap, center.y, center.x + size + gap, center.y),
       drawLine(pen, center.x, center.y - size - gap, center.x, center.y - gap),
       drawLine(pen, center.x, center.y + gap, center.x, center.y + size + gap) >>

\* the draw calls of one paintEvent on Settings s, and the KeyError that cut it short
Paint(s) ==
    LET has(K) == K \subseteq DOMAIN s
    IN  IF ~has({"opacity", "size", "thickness", "gap", "color", "outline"})
        THEN [calls |-> <<>>, raised |-> "KeyError"]
        ELSE IF s.outline /\ ~has({"outline_color", "outline_thickness"})
        THEN [calls |-> <<>>, raised |-> "KeyError"]
        ELSE LET outline_arms ==
                     IF s.outline
                     THEN Arms(QPen(s.outline_color, s.outline_thickness * 2 + s.thickness),
                               s.size, s.gap)
                     ELSE <<>>
                 arms == outline_arms \o Arms(QPen(s.color, s.thickness), s.size, s.gap)
             IN  IF ~has({"center_dot"}) THEN [calls |-> arms, raised |-> "KeyError"]
                 ELSE IF ~s.center_dot THEN [calls |-> arms, raised |-> "none"]
                 ELSE IF ~has({"dot_size"}) THEN [calls |-> arms, raised |-> "KeyError"]
                 ELSE [calls |-> arms
                          \o (IF s.outline
                              THEN <<drawEllipse(QPen(s.outline_color, 1), s.outline_color,
                                                 center, s.dot_size + 1, s.dot_size + 1)>>
                              ELSE <<>>)
                          \o <<drawEllipse(QPen(s.color, 1), s.color, center,
                                           s.dot_size, s.dot_size)>>,
                       raised |-> "none"]

paintEvent ==
    /\ appState = "running" /\ overlayOpen
    /\ painted' = Paint(settings).calls
    /\ raised' = Paint(settings).raised
    /\ Unhandled(Paint(settings).raised)
    /\ last' = "paintEvent"
    /\ calls' = <<>>
    /\ UNCHANGED <<cursor_visible, overlayOpen, displayCount, prevInside, windowVars,
                   panelVars, loadVars, nops>>

(* Pixels a drawLine call paints.  The arms are axis-parallel; a pen of     *)
(* width w with a square cap paints w/2 to either side of the line and w/2  *)
(* beyond each end point (a pen of width 1 paints the end points and the    *)
(* pixels between them).                                                    *)
Min(a, b) == IF a < b THEN a ELSE b
Max(a, b) == IF a > b THEN a ELSE b
Covers(call, x, y) ==
    LET reach == call.pen.width \div 2
    IN  /\ x >= Min(call.x1, call.x2) - reach /\ x <= Max(call.x1, call.x2) + reach
        /\ y >= Min(call.y1, call.y2) - reach /\ y <= Max(call.y1, call.y2) + reach

\* Settings the sliders and checkboxes can be brought to, for the paint routine
PaintSettings ==
    {[DefaultSettings EXCEPT !.gap = g, !.size = sz, !.thickness = th, !.outline = o,
                             !.outline_thickness = ot, !.center_dot = cd] :
        g \in SliderMin.gap..SliderMax.gap, sz \in {5, 20, 100}, th \in {1, 2, 10},
        o \in BOOLEAN, ot \in {1, 5}, cd \in BOOLEAN}

InitPaint ==
    /\ settings \in PaintSettings
    /\ slider = [k \in SliderKeySet |-> SliderValueOf(k, settings[k])]
    /\ label = [k \in SliderKeySet |-> str(SliderValueOf(k, DefaultSettings[k]))]
    /\ outline_check = settings.outline
    /\ dot_check = settings.center_dot
    /\ cursor_visible = TRUE /\ overlayOpen = TRUE /\ painted = <<>>
    /\ close_to_tray_check = TRUE /\ loading_profile = FALSE
    /\ panelVisible = TRUE /\ trayVisible = TRUE /\ appState = "running"
    /\ displayCount = 0 /\ cursorInside = FALSE /\ panelActive = TRUE
    /\ file = NoFile /\ last = "init" /\ raised = "none"
    /\ snapshot = DefaultSettings /\ saved = NoRecord /\ loadSrc = "none"
    /\ loadWrites = {} /\ calls = <<>> /\ prevInside = <<"none", "none">> /\ nops = 0

\* the paint routine alone, on every Settings record of PaintSettings
SpecPaint == InitPaint /\ [][paintEvent]_vars

-----------------------------------------------------------------------------
Next == NextPanel \/ NextOverlay \/ paintEvent

Spec == Init /\ [][Next]_vars

-----------------------------------------------------------------------------
(* Properties                                                               *)

\* C1: a load_profile that fails (unreadable file, invalid JSON, a missing key)
\* leaves the Settings record equal to the snapshot taken before it.
C1_FailedLoadKeepsSettings ==
    (last = "load_profile" /\ raised # "none") => settings = snapshot

\* C2: loading the file that save_profile wrote from a record within the declared
\* ranges gives back that record, and the record is still that one after the
\* controls have been refreshed.
C2_RoundTrip ==
    (last = "load_profile" /\ loadSrc = "saved" /\ raised = "none" /\ InRange(saved))
        => settings = saved

\* C2 witness: a record with opacity 0.29 was saved and loaded back; the refresh
\* moved the opacity slider (to int(0.29 * 100)) and the record is the saved one.
C2_Witness ==
    /\ last = "load_profile" /\ loadSrc = "saved" /\ raised = "none" /\ InRange(saved)
    /\ settings = saved
    /\ saved.opacity = Float(29)
    /\ slider.opacity # 29

\* C3: once the overlay has been closed, by either teardown path and whatever
\* cursor_visible was, the OS pointer is displayed, and stays so.
C3_PointerShownAfterClose == ~overlayOpen => PointerVisible

\* C3 witness: the main window was closed with close-to-tray off while the
\* overlay had the pointer hidden.
C3_Witness ==
    /\ last = "closeEvent" /\ ~overlayOpen /\ ~cursor_visible /\ PointerVisible

\* C4: a manage_cursor tick issues ShowCursor exactly once when the pointer has
\* crossed the main window's boundary since the previous tick (show on entering,
\* hide on leaving) and not at all when it has not.
C4_EdgeTriggered ==
    (last = "manage_cursor" /\ prevInside[1] # "none") =>
        calls = (IF prevInside[1] = prevInside[2] THEN <<>>
                 ELSE IF prevInside[2] = "inside" THEN <<TRUE>> ELSE <<FALSE>>)

\* C5: after every manage_cursor tick the OS pointer is displayed if and only if
\* the pointer lies within the main window's bounds.
C5_VisibleIffInside ==
    last = "manage_cursor" => (PointerVisible <=> cursorInside)

\* C6: during a load_profile no control callback writes a Settings field.
C6_NoWriteDuringLoad ==
    last = "load_profile" => loadWrites = {}

\* C7: when no load is in progress, each slider's value, its Settings field
\* (opacity as a percentage) and the text of its readout label are equal.
C7_SliderBinding ==
    (~loading_profile /\ DOMAIN settings = Keys) =>
        \A k \in SliderKeySet :
            /\ slider[k] = (IF k = "opacity" THEN settings[k].hundredths ELSE settings[k])
            /\ label[k] = str(slider[k])

\* C8: closing the main window with "close to tray" on hides it and leaves the
\* process, the overlay and the tray icon up; tray "Show" or a tray double click
\* shows it again; with "close to tray" off, closing it closes the overlay,
\* removes the tray icon and quits.
C8_CloseToTray ==
    /\ (last = "closeEvent" /\ close_to_tray_check) =>
           (~panelVisible /\ appState = "running" /\ overlayOpen /\ trayVisible)
    /\ (last = "closeEvent" /\ ~close_to_tray_check) =>
           (~overlayOpen /\ ~trayVisible /\ appState = "quit")
    /\ last \in {"show", "DoubleClick"} => panelVisible

\* C8 witness: the window was closed to the tray and the program keeps running.
C8_Witness ==
    /\ last = "closeEvent" /\ close_to_tray_check
    /\ ~panelVisible /\ appState = "running" /\ overlayOpen /\ trayVisible

\* C9: no arm stroke of a paintEvent paints a pixel within radius gap of the centre.
C9_GapClear ==
    last = "paintEvent" =>
        \A i \in 1..Len(painted) :
            painted[i].op = "drawLine" =>
                \A dx \in (0 - settings.gap)..settings.gap :
                \A dy \in (0 - settings.gap)..settings.gap :
                    (dx * dx + dy * dy < settings.gap * settings.gap)
                        => ~Covers(painted[i], center.x + dx, center.y + dy)

\* C10: after load_profile has returned or failed, loading_profile is false.
C10_FlagCleared ==
    last = "load_profile" => ~loading_profile

====
